---- MODULE Spec2Model ----
(***************************************************************************)
(* Model of the Canvas LMS installer's step orchestration:                 *)
(* canvas_installer/installer.py (CanvasInstaller, main) and               *)
(* canvas_installer/config.py (InstallationConfig).                        *)
(*                                                                         *)
(* One behaviour is a sequence of process invocations on one host.  The    *)
(* state file canvas_install_state.json outlives a process; the installer  *)
(* object (current_step, config) is rebuilt by every invocation.           *)
(***************************************************************************)
EXTENDS Integers, Sequences, FiniteSets, TLC

(***************************************************************************)
(* InstallationConfig (config.py)                                          *)
(***************************************************************************)

\* The 13 dataclass fields.
Fields ==
  {"domain", "canvas_password", "smtp_server", "smtp_port", "smtp_username",
   "smtp_password", "smtp_from_email", "smtp_from_name", "flickr_api_key",
   "youtube_api_key", "skip_ssl", "skip_rce", "skip_optimization"}

\* InstallationConfig(): every field at its declared default.
InstallationConfig ==
  [domain |-> "", canvas_password |-> "", smtp_server |-> "",
   smtp_port |-> "465", smtp_username |-> "", smtp_password |-> "",
   smtp_from_email |-> "", smtp_from_name |-> "", flickr_api_key |-> "",
   youtube_api_key |-> "", skip_ssl |-> FALSE, skip_rce |-> FALSE,
   skip_optimization |-> FALSE]

\* to_dict: asdict(self), a dict with one entry per field.
to_dict(c) == [f \in Fields |-> c[f]]

\* cls(**data) raises TypeError on a keyword that is not a field.
from_dict_raises(data) == ~(DOMAIN data \subseteq Fields)

\* Variant: from_dict restored the strings and left the three flags at their
\* defaults.
from_dict_DefaultsFlags(data) ==
  [f \in Fields |->
     IF f \in DOMAIN data /\ f \notin {"skip_ssl", "skip_rce", "skip_optimization"}
       THEN data[f] ELSE InstallationConfig[f]]

\* from_dict: cls(**data); a field missing from data keeps its default.
from_dict(data) ==
  [f \in Fields |-> IF f \in DOMAIN data THEN data[f] ELSE InstallationConfig[f]]

\* The empty dict, the default of state.get('config', {}).
EmptyDict == [f \in {} |-> ""]

(***************************************************************************)
(* The pipeline (installer.py, CanvasInstaller.__init__)                   *)
(***************************************************************************)

\* self.total_steps
total_steps == 14

\* self.steps: the display names, in pipeline order.
steps ==
  << "System Prerequisites Check", "Create Canvas User",
     "Install PostgreSQL & Setup Databases",
     "Install Git, Ruby, Node.js & Yarn", "Clone & Install Canvas LMS",
     "Configure Database, Mail & Domain",
     "Install Dependencies & Compile Assets", "Install & Configure Apache",
     "Setup SSL Certificate", "Configure Virtual Hosts",
     "Setup Jobs & Firewall", "Setup Redis Cache",
     "Enable Rich Content Editor", "Set Permissions & Optimization" >>

\* len(self.steps)
NumSteps == Len(steps)

\* 0-based positions of the two conditionally no-op steps in self.steps.
SSLIndex == 8
RCEIndex == 12

\* Variant: the skip flags were not consulted.
ShortCircuits_Never(p, c) == FALSE

\* SSLStep.execute / RCEStep.execute return True before doing anything when
\* their skip flag is set; no command runs, so nothing can fail.
ShortCircuits(p, c) ==
  \/ p = SSLIndex /\ c.skip_ssl
  \/ p = RCEIndex /\ c.skip_rce

(***************************************************************************)
(* The state file (installer.py, _save_state / _load_state)                *)
(***************************************************************************)

StateKeys == {"current_step", "config", "timestamp"}

\* No file at self.state_file.
NoFile ==
  [kind |-> "absent", keys |-> {}, current_step |-> 0, configIsDict |-> TRUE,
   config |-> EmptyDict]

\* A file whose content json.load rejects (empty, truncated, not JSON).
GarbageFile == [NoFile EXCEPT !.kind = "garbage"]

\* A file holding valid JSON that is not an object (a list, a number).
ArrayFile == [NoFile EXCEPT !.kind = "array"]

exists(f) == f.kind # "absent"

\* _save_state: json.dump of {current_step, config.to_dict(), timestamp}.
save_state(cs, c) ==
  [kind |-> "object", keys |-> StateKeys, current_step |-> cs,
   configIsDict |-> TRUE, config |-> to_dict(c)]

\* Variant: _load_state restored current_step and left self.config alone.
load_body_KeepsConfig(f, cs, c) ==
  IF ~exists(f)
    THEN [exc |-> "none", ret |-> FALSE, current_step |-> cs, config |-> c]
  ELSE IF f.kind = "garbage"
    THEN [exc |-> "JSONDecodeError", ret |-> FALSE, current_step |-> cs,
          config |-> c]
  ELSE IF f.kind = "array"
    THEN [exc |-> "AttributeError", ret |-> FALSE, current_step |-> cs,
          config |-> c]
  ELSE
    LET cs1  == IF "current_step" \in f.keys THEN f.current_step ELSE 0
        data == IF "config" \in f.keys THEN f.config ELSE EmptyDict
        isDict == "config" \notin f.keys \/ f.configIsDict
    IN  IF ~isDict \/ from_dict_raises(data)
          THEN [exc |-> "TypeError", ret |-> FALSE, current_step |-> cs1,
                config |-> c]
          ELSE [exc |-> "none", ret |-> TRUE, current_step |-> cs1,
                config |-> c]

\* The try body of _load_state: which exception it raises ("none" when it
\* runs to its return), and current_step / config as it leaves them.
\* current_step is assigned before from_dict is called.
load_body(f, cs, c) ==
  IF ~exists(f)
    THEN [exc |-> "none", ret |-> FALSE, current_step |-> cs, config |-> c]
  ELSE IF f.kind = "garbage"
    THEN [exc |-> "JSONDecodeError", ret |-> FALSE, current_step |-> cs,
          config |-> c]
  ELSE IF f.kind = "array"
    THEN [exc |-> "AttributeError", ret |-> FALSE, current_step |-> cs,
          config |-> c]
  ELSE
    LET cs1  == IF "current_step" \in f.keys THEN f.current_step ELSE 0
        data == IF "config" \in f.keys THEN f.config ELSE EmptyDict
        isDict == "config" \notin f.keys \/ f.configIsDict
    IN  IF ~isDict \/ from_dict_raises(data)
          THEN [exc |-> "TypeError", ret |-> FALSE, current_step |-> cs1,
                config |-> c]
          ELSE [exc |-> "none", ret |-> TRUE, current_step |-> cs1,
                config |-> from_dict(data)]

\* Variant: the handler were `except json.JSONDecodeError` only.
Caught_OnlyJSON == {"JSONDecodeError"}

\* The exceptions `except Exception` handles.
Caught == {"JSONDecodeError", "AttributeError", "TypeError"}

\* _load_state: the try body under its handler.  raised: an exception left
\* the method; ok: the return value.
load_state(f, cs, c) ==
  LET b == load_body(f, cs, c)
  IN  [raised |-> b.exc \notin (Caught \cup {"none"}),
       ok |-> b.exc = "none" /\ b.ret,
       current_step |-> b.current_step, config |-> b.config]

\* Variant: the slice started one past current_step, skipping the step
\* that is to be retried.
SliceStart_SkipsOne(cs) ==
  IF cs + 1 > NumSteps THEN NumSteps ELSE (IF cs + 1 < 0 THEN 0 ELSE cs + 1)

\* First position of self.steps[current_step:] (Python slice clamping).
SliceStart(cs) ==
  IF cs < 0
    THEN (IF NumSteps + cs < 0 THEN 0 ELSE NumSteps + cs)
    ELSE (IF cs > NumSteps THEN NumSteps ELSE cs)

(***************************************************************************)
(* Inputs                                                                  *)
(***************************************************************************)

\* Answers to the domain prompt (its default is the empty string).
DomainInputs == {"", "canvas.example.com"}

\* The four Confirm.ask answers of collect_configuration, in the order asked.
Answers(smtp, rce, ssl, opt) ==
  [asked |-> TRUE, smtp |-> smtp, rce |-> rce, ssl |-> ssl, opt |-> opt]

\* A process in which collect_configuration has not run.
NoAnswers ==
  [asked |-> FALSE, smtp |-> FALSE, rce |-> FALSE, ssl |-> FALSE, opt |-> FALSE]

\* Variant: skip_ssl assigned the answer itself, without `not`.
Collected_SslNotNegated(c, dom, smtp, rce, ssl, opt) ==
  [c EXCEPT
     !.domain = dom,
     !.canvas_password = "secret",
     !.smtp_server = IF smtp THEN "smtp.gmail.com" ELSE @,
     !.smtp_port = IF smtp THEN "465" ELSE @,
     !.smtp_username = IF smtp THEN "admin@example.com" ELSE @,
     !.smtp_password = IF smtp THEN "mailpw" ELSE @,
     !.smtp_from_email = IF smtp THEN "canvas@example.com" ELSE @,
     !.smtp_from_name = IF smtp THEN "Canvas LMS" ELSE @,
     !.flickr_api_key = IF rce THEN "" ELSE @,
     !.youtube_api_key = IF rce THEN "" ELSE @,
     !.skip_rce = IF rce THEN @ ELSE TRUE,
     !.skip_ssl = ssl,
     !.skip_optimization = ~opt]

\* collect_configuration: the record built from the prompt answers.  smtp,
\* rce, ssl, opt are the four Confirm.ask answers.
Collected(c, dom, smtp, rce, ssl, opt) ==
  [c EXCEPT
     !.domain = dom,
     !.canvas_password = "secret",
     !.smtp_server = IF smtp THEN "smtp.gmail.com" ELSE @,
     !.smtp_port = IF smtp THEN "465" ELSE @,
     !.smtp_username = IF smtp THEN "admin@example.com" ELSE @,
     !.smtp_password = IF smtp THEN "mailpw" ELSE @,
     !.smtp_from_email = IF smtp THEN "canvas@example.com" ELSE @,
     !.smtp_from_name = IF smtp THEN "Canvas LMS" ELSE @,
     !.flickr_api_key = IF rce THEN "" ELSE @,
     !.youtube_api_key = IF rce THEN "" ELSE @,
     !.skip_rce = IF rce THEN @ ELSE TRUE,
     !.skip_ssl = ~ssl,
     !.skip_optimization = ~opt]

(***************************************************************************)
(* Steps (steps/*.py, utils.py)                                            *)
(***************************************************************************)

\* Most run_command / write_config_file calls followed within one execute().
MaxCommands == 2

\* Positions whose execute() cannot return True without having called
\* run_command or write_config_file (unless it short-circuits).  Not among
\* them: 0 (PrerequisitesStep only runs checks), 1 (CanvasUserStep returns
\* early when `id canvas` succeeds) and 6 (DependenciesStep).
CommandSteps == {2, 3, 4, 5, 7, 8, 9, 10, 11, 12, 13}

\* What SystemChecker.check_internet can meet: ping exits non-zero, ping
\* exceeds timeout=10, or subprocess.run raises something else.
CheckCauses == {"NonZeroReturn", "TimeoutExpired", "OSError"}

\* What run_command re-raises: CalledProcessError (check=True),
\* TimeoutExpired, or any other exception.
CommandCauses == {"CalledProcessError", "TimeoutExpired", "OSError"}

\* What can make execute() return False.  PrerequisitesStep (position 0)
\* runs the checks; the other steps run commands inside `except Exception`.
FailureCauses(p) == IF p = 0 THEN CheckCauses ELSE CommandCauses

\* The details check_internet returns: its bare `except:` answers a timeout
\* and every other exception alike.
CheckReason(e) ==
  IF e = "NonZeroReturn" THEN "No internet connection"
                         ELSE "Cannot verify internet connection"

\* str(error) of the exception run_command re-raised, as log_failure prints
\* it.
CommandReason(e) ==
  IF e = "CalledProcessError" THEN "returned non-zero exit status"
  ELSE IF e = "TimeoutExpired" THEN "timed out after"
  ELSE "error"

\* The reason shown for the failure of the step at position p.
Reason(p, e) == IF p = 0 THEN CheckReason(e) ELSE CommandReason(e)

\* A line the process prints about its steps: what it reports, the position
\* in self.steps of the step it names (-1: it names none) and the reason it
\* carries.
Note(k, p, r) ==
  [kind |-> k, pos |-> p, position |-> 0, total |-> 0, reason |-> r]

\* "Step {i + 1}/{self.total_steps}: {step_name}", printed by the loop
\* before it constructs the step and calls execute().
StartNote(p, n) ==
  [kind |-> "start", pos |-> p, position |-> n + 1, total |-> total_steps,
   reason |-> "none"]

\* What a step prints when it returns True: log_success() names the step;
\* SSLStep and RCEStep with their flag set print only "Skipping ...".
ReturnNotes(p, c) ==
  IF ShortCircuits(p, c) THEN << Note("skipping", -1, "none") >>
                         ELSE << Note("success", p, "none") >>

\* Variant: the loop returned False without printing anything.
FailureNotes_Silent(p, r) ==
  IF p = 0 THEN << Note("failure", -1, r) >>
           ELSE << Note("failure", p, r) >>

\* What is printed when execute() returns False.  PrerequisitesStep prints
\* the table of checks with their details and "Prerequisites check failed";
\* the other steps call log_failure(e): "{step_name} failed: {error}".  The
\* loop then prints "Installation failed at step: {step_name}".
FailureNotes(p, r) ==
  IF p = 0 THEN << Note("failure", -1, r), Note("failed at", p, "none") >>
           ELSE << Note("failure", p, r), Note("failed at", p, "none") >>

\* A step that has invoked no command and has not failed.
NoStep == [cmds |-> 0, exc |-> "none", reason |-> "none"]

\* No previous process.
NoRun == [result |-> "none", interrupted_at |-> -1]

(***************************************************************************)
(* State                                                                   *)
(***************************************************************************)

VARIABLES
  file,          \* content of canvas_install_state.json
  current_step,  \* self.current_step
  config,        \* self.config
  pc,            \* position of the process: off, main, run, loop, exec, exited
  i,             \* the enumerate counter of the step loop
  pos,           \* position in self.steps of the loop's current element
  exit_status,   \* status of the last sys.exit (-1: none yet)
  result,        \* what run_installation returned: none, success, failure
  collected,     \* history: collect_configuration ran in this process
  resume,        \* history: answer to the resume prompt: none, yes, no
  loaded,        \* history: outcome of _load_state: none, ok, failed, raised
  executed,      \* history: the steps executed in this process, in order
  succeeded,     \* history: positions that succeeded since the last discard
  start_file,    \* history: the state file as the process found it
  step,          \* history: commands invoked and failure of the current step
  previous,      \* history: how the previous process ended
  console,       \* what the process has printed about its steps, in order
  self_steps,    \* self.steps: the pipeline of the installer object
  host,          \* the host as the steps find it and leave it
  answers,       \* history: the Confirm.ask answers given to this process
  written        \* history: current_step of the last complete write (-1: none)

vars ==
  << file, current_step, config, pc, i, pos, exit_status, result, collected,
     resume, loaded, executed, succeeded, start_file, step, previous,
     console, self_steps, host, answers, written >>

\* State of a host on which the installer has never run.
Init ==
  /\ file = NoFile
  /\ current_step = 0
  /\ config = InstallationConfig
  /\ pc = "off"
  /\ i = 0
  /\ pos = 0
  /\ exit_status = -1
  /\ result = "none"
  /\ collected = FALSE
  /\ resume = "none"
  /\ loaded = "none"
  /\ executed = << >>
  /\ succeeded = {}
  /\ start_file = NoFile
  /\ step = NoStep
  /\ previous = NoRun
  /\ console = << >>
  /\ self_steps = steps
  /\ host = {}
  /\ answers = NoAnswers
  /\ written = IF file.kind = "object" THEN file.current_step ELSE -1

(***************************************************************************)
(* Operations                                                              *)
(***************************************************************************)

\* A step of the history: position in self.steps, enumerate counter, and how
\* execute ended (running, success, failure, interrupted, raised).
Exec(p, n, r) == [pos |-> p, i |-> n, result |-> r]

\* The last entry of executed, with its result replaced.
Ended(r) ==
  [executed EXCEPT ![Len(executed)] = Exec(@.pos, @.i, r)]

\* Variant: main ended with sys.exit(0) whatever run_installation returned.
Exit_AlwaysZero(status) ==
  /\ pc' = "exited"
  /\ exit_status' = 0

\* sys.exit(status) at the end of main.
Exit(status) ==
  /\ pc' = "exited"
  /\ exit_status' = status

\* Variant: the privilege check came after the configuration had been
\* collected and saved.
MainStart_CollectsFirst ==
  /\ pc \in {"off", "exited"}
  /\ result' = "none"
  /\ resume' = "none"
  /\ loaded' = "none"
  /\ executed' = << >>
  /\ start_file' = file
  /\ step' = NoStep
  /\ previous' =
       IF pc = "off" THEN NoRun
       ELSE [result |-> result,
             interrupted_at |->
               IF executed # << >> /\ executed[Len(executed)].result = "interrupted"
                 THEN executed[Len(executed)].i ELSE -1]
  /\ \E privileged \in BOOLEAN :
       IF privileged
         THEN /\ current_step' = 0
              /\ config' = InstallationConfig
              /\ pc' = "main"
              /\ collected' = FALSE
              /\ UNCHANGED << exit_status, file >>
         ELSE /\ Exit(1)
              /\ collected' = ~exists(file)
              /\ file' = IF exists(file) THEN file
                         ELSE save_state(0, InstallationConfig)
              /\ UNCHANGED << current_step, config >>
  /\ UNCHANGED << i, pos, succeeded >>
  /\ console' = << >>
  /\ self_steps' = steps
  /\ UNCHANGED host
  /\ answers' = NoAnswers
  /\ written' = IF pc' = "exited" /\ ~exists(file) THEN 0 ELSE written

\* main, up to the construction of the installer: the privilege check
\* (os.geteuid() == 0 or SUDO_USER set), then CanvasInstaller().
MainStart ==
  /\ pc \in {"off", "exited"}
  /\ result' = "none"
  /\ collected' = FALSE
  /\ resume' = "none"
  /\ loaded' = "none"
  /\ executed' = << >>
  /\ start_file' = file
  /\ step' = NoStep
  /\ previous' =
       IF pc = "off" THEN NoRun
       ELSE [result |-> result,
             interrupted_at |->
               IF executed # << >> /\ executed[Len(executed)].result = "interrupted"
                 THEN executed[Len(executed)].i ELSE -1]
  /\ \E privileged \in BOOLEAN :
       IF privileged
         THEN /\ current_step' = 0
              /\ config' = InstallationConfig
              /\ pc' = "main"
              /\ UNCHANGED exit_status
         ELSE /\ Exit(1)
              /\ UNCHANGED << current_step, config >>
  /\ UNCHANGED << file, i, pos, succeeded >>
  /\ console' = << >>
  /\ self_steps' = steps
  /\ UNCHANGED host
  /\ answers' = NoAnswers
  /\ UNCHANGED written

\* Variant: collect_configuration without its final _save_state().
CollectConfiguration_NoSave ==
  /\ pc = "main"
  /\ ~exists(file)
  /\ \E dom \in DomainInputs, smtp, rce, ssl, opt \in BOOLEAN :
       /\ config' = Collected(config, dom, smtp, rce, ssl, opt)
       /\ answers' = Answers(smtp, rce, ssl, opt)
  /\ collected' = TRUE
  /\ pc' = "run"
  /\ UNCHANGED << file, current_step, i, pos, exit_status, result, resume,
                  loaded, executed, succeeded, start_file, step,
                  previous >>
  /\ UNCHANGED console
  /\ UNCHANGED self_steps
  /\ UNCHANGED host
  /\ UNCHANGED written

\* main: `if not os.path.exists(state_file): collect_configuration()`, whose
\* last statement is _save_state().
CollectConfiguration ==
  /\ pc = "main"
  /\ ~exists(file)
  /\ \E dom \in DomainInputs, smtp, rce, ssl, opt \in BOOLEAN :
       /\ config' = Collected(config, dom, smtp, rce, ssl, opt)
       /\ answers' = Answers(smtp, rce, ssl, opt)
       /\ file' = save_state(current_step, config')
  /\ collected' = TRUE
  /\ pc' = "run"
  /\ UNCHANGED << current_step, i, pos, exit_status, result, resume, loaded,
                  executed, succeeded, start_file, step,
                  previous >>
  /\ UNCHANGED console
  /\ UNCHANGED self_steps
  /\ UNCHANGED host
  /\ written' = current_step

\* Variant: main never called collect_configuration.
SkipCollection_Always ==
  /\ pc = "main"
  /\ pc' = "run"
  /\ UNCHANGED << file, current_step, config, i, pos, exit_status, result,
                  collected, resume, loaded, executed, succeeded, start_file,
                  step, previous >>
  /\ UNCHANGED console
  /\ UNCHANGED self_steps
  /\ UNCHANGED host
  /\ UNCHANGED answers
  /\ UNCHANGED written

\* main: the state file exists, so collect_configuration is not called.
SkipCollection ==
  /\ pc = "main"
  /\ exists(file)
  /\ pc' = "run"
  /\ UNCHANGED << file, current_step, config, i, pos, exit_status, result,
                  collected, resume, loaded, executed, succeeded, start_file, step,
                  previous >>
  /\ UNCHANGED console
  /\ UNCHANGED self_steps
  /\ UNCHANGED host
  /\ UNCHANGED answers
  /\ UNCHANGED written

\* run_installation up to the loop: the resume prompt, then _load_state()
\* (its return value is not used) or os.remove and current_step = 0; then
\* enumerate(self.steps[self.current_step:], self.current_step) is set up.
RunStart ==
  /\ pc = "run"
  /\ IF exists(file)
       THEN \E answer \in BOOLEAN :
              IF answer
                THEN LET l == load_state(file, current_step, config)
                     IN  /\ resume' = "yes"
                         /\ loaded' = IF l.raised THEN "raised"
                                      ELSE IF l.ok THEN "ok" ELSE "failed"
                         /\ current_step' = l.current_step
                         /\ config' = l.config
                         /\ IF l.raised
                              THEN /\ Exit(1)
                                   /\ UNCHANGED << i, pos >>
                              ELSE /\ pc' = "loop"
                                   /\ i' = l.current_step
                                   /\ pos' = SliceStart(l.current_step)
                                   /\ UNCHANGED exit_status
                         /\ UNCHANGED << file, succeeded >>
                ELSE /\ resume' = "no"
                     /\ file' = NoFile
                     /\ succeeded' = {}
                     /\ current_step' = 0
                     /\ i' = 0
                     /\ pos' = SliceStart(0)
                     /\ pc' = "loop"
                     /\ UNCHANGED << config, loaded, exit_status >>
       ELSE /\ i' = current_step
            /\ pos' = SliceStart(current_step)
            /\ pc' = "loop"
            /\ UNCHANGED << file, current_step, config, resume, loaded,
                            succeeded, exit_status >>
  /\ UNCHANGED << result, collected, executed, start_file, step,
                  previous >>
  /\ UNCHANGED console
  /\ UNCHANGED self_steps
  /\ UNCHANGED host
  /\ UNCHANGED answers
  /\ written' = IF exists(file') THEN written ELSE -1

\* Loop body up to the call: the "Step i+1/total" line is printed and
\* step_class(config, console, logger).execute() is entered.
StepStart ==
  /\ pc = "loop"
  /\ pos < Len(self_steps)
  /\ executed' = Append(executed, Exec(pos, i, "running"))
  /\ step' = NoStep
  /\ pc' = "exec"
  /\ UNCHANGED << file, current_step, config, i, pos, exit_status, result,
                  collected, resume, loaded, succeeded, start_file,
                  previous >>
  /\ console' = Append(console, StartNote(pos, i))
  /\ UNCHANGED self_steps
  /\ UNCHANGED host
  /\ UNCHANGED answers
  /\ UNCHANGED written

\* Variant: a step stored a secret it generated in the shared config.
RunCommand_StoresSecret ==
  /\ pc = "exec"
  /\ ~ShortCircuits(pos, config)
  /\ pos # 0
  /\ step.cmds < MaxCommands
  /\ step' = [step EXCEPT !.cmds = @ + 1]
  /\ config' = [config EXCEPT !.canvas_password = "generated"]
  /\ UNCHANGED << file, current_step, pc, i, pos, exit_status, result,
                  collected, resume, loaded, executed, succeeded, start_file,
                  previous >>
  /\ UNCHANGED console
  /\ UNCHANGED self_steps
  /\ UNCHANGED host
  /\ UNCHANGED answers
  /\ UNCHANGED written

\* Inside execute(): one run_command / write_config_file call returned
\* normally.  A step reads self.config and assigns nothing to it; secrets
\* it generates go into the files it writes.
RunCommand ==
  /\ pc = "exec"
  /\ ~ShortCircuits(pos, config)
  /\ pos # 0
  /\ step.cmds < MaxCommands
  /\ step' = [step EXCEPT !.cmds = @ + 1]
  /\ UNCHANGED << file, current_step, config, pc, i, pos, exit_status, result,
                  collected, resume, loaded, executed, succeeded, start_file,
                  previous >>
  /\ UNCHANGED console
  /\ UNCHANGED self_steps
  /\ UNCHANGED host
  /\ UNCHANGED answers
  /\ UNCHANGED written

\* Variant: the loop advanced current_step without calling _save_state().
StepSuccess_NoSave ==
  /\ pc = "exec"
  /\ (pos \in CommandSteps /\ ~ShortCircuits(pos, config)) => step.cmds >= 1
  /\ current_step' = i + 1
  /\ executed' = Ended("success")
  /\ succeeded' = succeeded \cup {pos}
  /\ i' = i + 1
  /\ pos' = pos + 1
  /\ pc' = "loop"
  /\ UNCHANGED << file, config, exit_status, result, collected, resume,
                  loaded, start_file, step,
                  previous >>
  /\ console' = console \o ReturnNotes(pos, config)
  /\ UNCHANGED self_steps
  /\ UNCHANGED host
  /\ UNCHANGED answers
  /\ UNCHANGED written

\* Variant: _save_state() were called before current_step is advanced.
StepSuccess_SavesStale ==
  /\ pc = "exec"
  /\ (pos \in CommandSteps /\ ~ShortCircuits(pos, config)) => step.cmds >= 1
  /\ file' = save_state(current_step, config)
  /\ current_step' = i + 1
  /\ executed' = Ended("success")
  /\ succeeded' = succeeded \cup {pos}
  /\ i' = i + 1
  /\ pos' = pos + 1
  /\ pc' = "loop"
  /\ UNCHANGED << config, exit_status, result, collected, resume, loaded,
                  start_file, step,
                  previous >>
  /\ console' = console \o ReturnNotes(pos, config)
  /\ UNCHANGED self_steps
  /\ UNCHANGED host
  /\ UNCHANGED answers
  /\ written' = current_step

\* Variant: the loop consumed self.steps as it went (self.steps.pop(0)).
StepSuccess_PopsStep ==
  /\ pc = "exec"
  /\ (pos \in CommandSteps /\ ~ShortCircuits(pos, config)) => step.cmds >= 1
  /\ current_step' = i + 1
  /\ file' = save_state(current_step', config)
  /\ executed' = Ended("success")
  /\ succeeded' = succeeded \cup {pos}
  /\ i' = i + 1
  /\ pos' = pos + 1
  /\ pc' = "loop"
  /\ UNCHANGED << config, exit_status, result, collected, resume, loaded,
                  start_file, step,
                  previous >>
  /\ console' = console \o ReturnNotes(pos, config)
  /\ self_steps' = Tail(self_steps)
  /\ UNCHANGED host
  /\ UNCHANGED answers
  /\ written' = current_step'

\* execute() returned True: current_step = i + 1, then _save_state().
StepSuccess ==
  /\ pc = "exec"
  /\ (pos \in CommandSteps /\ ~ShortCircuits(pos, config)) => step.cmds >= 1
  /\ current_step' = i + 1
  /\ file' = save_state(current_step', config)
  /\ executed' = Ended("success")
  /\ succeeded' = succeeded \cup {pos}
  /\ i' = i + 1
  /\ pos' = pos + 1
  /\ pc' = "loop"
  /\ UNCHANGED << config, exit_status, result, collected, resume, loaded,
                  start_file, step,
                  previous >>
  /\ console' = console \o ReturnNotes(pos, config)
  /\ UNCHANGED self_steps
  /\ UNCHANGED host
  /\ UNCHANGED answers
  /\ written' = current_step'

\* Variant: the loop ignored the return value of execute() and went on.
StepFailure_Continues ==
  /\ pc = "exec"
  /\ ~ShortCircuits(pos, config)
  /\ \E e \in FailureCauses(pos) :
       step' = [cmds |-> IF pos = 0 THEN 0 ELSE step.cmds + 1, exc |-> e,
                reason |-> Reason(pos, e)]
  /\ executed' = Ended("failure")
  /\ i' = i + 1
  /\ pos' = pos + 1
  /\ pc' = "loop"
  /\ UNCHANGED << file, current_step, config, exit_status, result, collected,
                  resume, loaded, succeeded, start_file, previous >>
  /\ console' = console \o FailureNotes(pos, step'.reason)
  /\ UNCHANGED self_steps
  /\ UNCHANGED host
  /\ UNCHANGED answers
  /\ UNCHANGED written

\* Variant: progress were advanced and saved before the return value of
\* execute() is tested.
StepFailure_SavesProgress ==
  /\ pc = "exec"
  /\ ~ShortCircuits(pos, config)
  /\ current_step' = i + 1
  /\ file' = save_state(current_step', config)
  /\ \E e \in FailureCauses(pos) :
       step' = [cmds |-> IF pos = 0 THEN 0 ELSE step.cmds + 1, exc |-> e,
                reason |-> Reason(pos, e)]
  /\ executed' = Ended("failure")
  /\ result' = "failure"
  /\ Exit(1)
  /\ UNCHANGED << config, i, pos, collected, resume, loaded, succeeded,
                  start_file, previous >>
  /\ console' = console \o FailureNotes(pos, step'.reason)
  /\ UNCHANGED self_steps
  /\ UNCHANGED host
  /\ UNCHANGED answers
  /\ written' = current_step'

\* Variant: a run that failed removed the state file, so that the next
\* run started over.
StepFailure_DiscardsState ==
  /\ pc = "exec"
  /\ ~ShortCircuits(pos, config)
  /\ \E e \in FailureCauses(pos) :
       step' = [cmds |-> IF pos = 0 THEN 0 ELSE step.cmds + 1, exc |-> e,
                reason |-> Reason(pos, e)]
  /\ executed' = Ended("failure")
  /\ file' = NoFile
  /\ succeeded' = {}
  /\ written' = -1
  /\ result' = "failure"
  /\ Exit(1)
  /\ UNCHANGED << current_step, config, i, pos, collected, resume, loaded,
                  start_file, previous >>
  /\ console' = console \o FailureNotes(pos, step'.reason)
  /\ UNCHANGED self_steps
  /\ UNCHANGED host
  /\ UNCHANGED answers

\* Variant: the loop ran the failed step again.
StepFailure_Retries ==
  /\ pc = "exec"
  /\ ~ShortCircuits(pos, config)
  /\ \E e \in FailureCauses(pos) :
       step' = [cmds |-> IF pos = 0 THEN 0 ELSE step.cmds + 1, exc |-> e,
                reason |-> Reason(pos, e)]
  /\ executed' = Ended("failure")
  /\ pc' = "loop"
  /\ UNCHANGED << file, current_step, config, i, pos, exit_status, result,
                  collected, resume, loaded, succeeded, start_file, previous >>
  /\ console' = console \o FailureNotes(pos, step'.reason)
  /\ UNCHANGED self_steps
  /\ UNCHANGED host
  /\ UNCHANGED answers
  /\ UNCHANGED written

\* execute() returned False: a check failed (position 0), or a command
\* failed and the step's `except Exception` logged the reason.
\* run_installation returns False, main exits 1.
StepFailure ==
  /\ pc = "exec"
  /\ ~ShortCircuits(pos, config)
  /\ \E e \in FailureCauses(pos) :
       step' = [cmds |-> IF pos = 0 THEN 0 ELSE step.cmds + 1, exc |-> e,
                reason |-> Reason(pos, e)]
  /\ executed' = Ended("failure")
  /\ result' = "failure"
  /\ Exit(1)
  /\ UNCHANGED << file, current_step, config, i, pos, collected, resume,
                  loaded, succeeded, start_file, previous >>
  /\ console' = console \o FailureNotes(pos, step'.reason)
  /\ UNCHANGED self_steps
  /\ UNCHANGED host
  /\ UNCHANGED answers
  /\ UNCHANGED written

\* An exception raised in execute() before its try block (log_start(), or
\* the console.print of a short-circuiting step) leaves execute(); the
\* `except Exception` of run_installation returns False, main exits 1.
StepRaises ==
  /\ pc = "exec"
  /\ step.cmds = 0
  /\ step' = [step EXCEPT !.exc = "OSError"]
  /\ executed' = Ended("raised")
  /\ result' = "failure"
  /\ Exit(1)
  /\ UNCHANGED << file, current_step, config, i, pos, collected, resume,
                  loaded, succeeded, start_file, previous >>
  /\ console' = Append(console, Note("error", -1, "error"))
  /\ UNCHANGED self_steps
  /\ UNCHANGED host
  /\ UNCHANGED answers
  /\ UNCHANGED written

\* Variant: the KeyboardInterrupt handler removed the state file.
Interrupt_CleansUp ==
  /\ pc \in {"loop", "exec"}
  /\ executed' = IF pc = "exec" THEN Ended("interrupted") ELSE executed
  /\ file' = NoFile
  /\ result' = "failure"
  /\ Exit(1)
  /\ UNCHANGED << current_step, config, i, pos, collected, resume, loaded,
                  succeeded, start_file, step, previous >>
  /\ console' = Append(console, Note("interrupted", -1, "none"))
  /\ UNCHANGED self_steps
  /\ UNCHANGED host
  /\ UNCHANGED answers
  /\ written' = -1

\* KeyboardInterrupt inside the try block (during a step, or during the
\* pause between steps): run_installation returns False, main exits 1.
Interrupt ==
  /\ pc \in {"loop", "exec"}
  /\ executed' = IF pc = "exec" THEN Ended("interrupted") ELSE executed
  /\ result' = "failure"
  /\ Exit(1)
  /\ UNCHANGED << file, current_step, config, i, pos, collected, resume,
                  loaded, succeeded, start_file, step,
                  previous >>
  /\ console' = Append(console, Note("interrupted", -1, "none"))
  /\ UNCHANGED self_steps
  /\ UNCHANGED host
  /\ UNCHANGED answers
  /\ UNCHANGED written

\* Variant: completion without the removal of the state file.
Complete_KeepsState ==
  /\ pc = "loop"
  /\ pos = Len(self_steps)
  /\ result' = "success"
  /\ Exit(0)
  /\ UNCHANGED << file, succeeded, current_step, config, i, pos, collected,
                  resume, loaded, executed, start_file, step,
                  previous >>
  /\ console' = Append(console, Note("completed", -1, "none"))
  /\ UNCHANGED self_steps
  /\ UNCHANGED host
  /\ UNCHANGED answers
  /\ UNCHANGED written

\* The loop is exhausted: the state file is removed if it exists,
\* run_installation returns True, main exits 0.
Complete ==
  /\ pc = "loop"
  /\ pos = Len(self_steps)
  /\ file' = NoFile
  /\ succeeded' = {}
  /\ result' = "success"
  /\ Exit(0)
  /\ UNCHANGED << current_step, config, i, pos, collected, resume, loaded,
                  executed, start_file, step,
                  previous >>
  /\ console' = Append(console, Note("completed", -1, "none"))
  /\ UNCHANGED self_steps
  /\ UNCHANGED host
  /\ UNCHANGED answers
  /\ written' = -1

\* execute() returned True and the process is interrupted inside
\* _save_state(), after open(state_file, 'w') has truncated the file and
\* before json.dump has written all of it.  The KeyboardInterrupt handler
\* returns False, main exits 1.
SaveInterrupted ==
  /\ pc = "exec"
  /\ (pos \in CommandSteps /\ ~ShortCircuits(pos, config)) => step.cmds >= 1
  /\ current_step' = i + 1
  /\ file' = GarbageFile
  /\ executed' = Ended("success")
  /\ succeeded' = succeeded \cup {pos}
  /\ result' = "failure"
  /\ Exit(1)
  /\ UNCHANGED << config, i, pos, collected, resume, loaded, start_file, step,
                  previous >>
  /\ console' = console \o ReturnNotes(pos, config) \o << Note("interrupted", -1, "none") >>
  /\ UNCHANGED self_steps
  /\ UNCHANGED host
  /\ UNCHANGED answers
  /\ UNCHANGED written

Next ==
  \/ MainStart
  \/ CollectConfiguration
  \/ SkipCollection
  \/ RunStart
  \/ StepStart
  \/ RunCommand
  \/ StepSuccess
  \/ StepFailure
  \/ StepRaises
  \/ Interrupt
  \/ Complete

\* Every invocation finds what the earlier invocations left behind.
Spec == Init /\ [][Next]_vars

\* The same, with processes that may be interrupted while they save.
NextCrash ==
  \/ Next
  \/ SaveInterrupted

SpecCrash == Init /\ [][NextCrash]_vars

(***************************************************************************)
(* State files the installer did not write                                 *)
(***************************************************************************)

\* current_step values of a hand-edited or damaged state file.
ForeignSteps == {-2, 3, 20}

\* config values of such a file that are JSON objects: empty, partial, a
\* full record, and one with a key that is not a field.
ForeignDicts ==
  { EmptyDict,
    [domain |-> "lms.example.org"],
    to_dict(InstallationConfig),
    [domain |-> "lms.example.org", theme |-> "dark"] }

\* A JSON object file with the given keys.
ObjectFile(ks, cs, isDict, d) ==
  [kind |-> "object", keys |-> ks, current_step |-> cs, configIsDict |-> isDict,
   config |-> d]

\* What an invocation may find that no earlier invocation wrote.
ForeignFiles ==
  {GarbageFile, ArrayFile}
    \cup { ObjectFile({}, 0, TRUE, EmptyDict) }
    \cup { ObjectFile({"current_step"}, cs, TRUE, EmptyDict) : cs \in ForeignSteps }
    \cup { ObjectFile(ks, cs, TRUE, d) :
             ks \in {{"config"}, StateKeys}, cs \in ForeignSteps,
             d \in ForeignDicts }
    \cup { ObjectFile(ks, cs, FALSE, EmptyDict) :
             ks \in {{"config"}, StateKeys}, cs \in ForeignSteps }

\* The first invocation finds no file, or a file of any content.
InitExt ==
  /\ file \in {NoFile} \cup
       { IF "current_step" \in f.keys THEN f ELSE [f EXCEPT !.current_step = 0] :
           f \in ForeignFiles }
  /\ current_step = 0
  /\ config = InstallationConfig
  /\ pc = "off"
  /\ i = 0
  /\ pos = 0
  /\ exit_status = -1
  /\ result = "none"
  /\ collected = FALSE
  /\ resume = "none"
  /\ loaded = "none"
  /\ executed = << >>
  /\ succeeded = {}
  /\ start_file = file
  /\ step = NoStep
  /\ previous = NoRun
  /\ console = << >>
  /\ self_steps = steps
  /\ host = {}
  /\ answers = NoAnswers
  /\ written = IF file.kind = "object" THEN file.current_step ELSE -1

SpecExt == InitExt /\ [][Next]_vars

(***************************************************************************)
(* Properties                                                              *)
(***************************************************************************)

LastExec == executed[Len(executed)]

\* The run ended because the step at position k returned failure.
FailedAt(k) ==
  /\ pc = "exited"
  /\ executed # << >>
  /\ LastExec.pos = k
  /\ LastExec.result = "failure"

\* The run started at index 0 and executed steps 0..k, in order.
RanFromZeroTo(k) ==
  /\ Len(executed) = k + 1
  /\ \A n \in 1..(k + 1) : executed[n].pos = n - 1

\* The state file holds a record written by _save_state with current_step k.
PersistedStep(k) == file.kind = "object" /\ file.current_step = k

\* C1 as stated: for every k in 0..13, when steps 0..k-1 succeeded and step k
\* failed, a state file exists at the end of the run and its current_step is
\* k, also for k = 0 and also when resume was declined.
C1_AsStated ==
  \A k \in 0..(NumSteps - 1) :
    (FailedAt(k) /\ RanFromZeroTo(k)) => PersistedStep(k)

\* C1 (amended): when a run ends because step k failed, the state file holds
\* current_step = k, except that for k = 0 after a declined resume prompt no
\* state file exists (the discard removed it and nothing wrote it again).
C1_ResumeIndex ==
  \A k \in 0..(NumSteps - 1) :
    FailedAt(k) =>
      IF k = 0 /\ resume = "no" THEN ~exists(file) ELSE PersistedStep(k)

\* C1 witness: steps 0..3 succeeded after a declined resume and step 4 failed.
C1_Witness ==
  /\ FailedAt(4)
  /\ RanFromZeroTo(4)
  /\ resume = "no"

\* C2: when the process finds a state file with current_step = k < 14 and the
\* user accepts resume, the first step executed is step k, no step below k is
\* executed, and every later step runs only after its predecessor succeeded.
C2_ResumeRetriesFailedStep ==
  (resume = "yes" /\ start_file.kind = "object"
     /\ start_file.current_step \in 0..(NumSteps - 1) /\ loaded # "none")
  => /\ pc \in {"loop"} /\ executed = << >> => pos = start_file.current_step
     /\ \A n \in 1..Len(executed) :
          /\ executed[n].pos = start_file.current_step + n - 1
          /\ n > 1 => executed[n - 1].result = "success"

\* C2 witness: a resumed run from index 5 has executed steps 5 and 6.
C2_Witness ==
  /\ resume = "yes"
  /\ start_file.kind = "object"
  /\ start_file.current_step = 5
  /\ Len(executed) = 2
  /\ executed[2].pos = 6

\* C3: whenever run_installation has returned success, no state file exists.
C3_CompletionClearsState ==
  result = "success" => ~exists(file)

\* C3 witness: a resumed run has completed successfully.
C3_Witness ==
  /\ pc = "exited"
  /\ result = "success"
  /\ exit_status = 0
  /\ executed # << >>
  /\ LastExec.pos = NumSteps - 1
  /\ start_file.kind = "object"

\* C4: a step that returned failure is the last step of its run, and the run
\* has returned failure.
C4_FailureIsFatal ==
  \A n \in 1..Len(executed) :
    executed[n].result = "failure" =>
      /\ n = Len(executed)
      /\ pc = "exited"
      /\ result = "failure"
      /\ exit_status = 1

\* C4 witness: a run ended on the failure of its third step.
C4_Witness ==
  /\ FailedAt(2)
  /\ Len(executed) = 3

\* C5: once a step has succeeded in this run, from the end of its save to the
\* end of the next step (interruptions included) the state file holds the
\* index of that next step.
C5_PersistBeforeProceeding ==
  (executed # << >> /\ executed[1].result = "success" /\ result # "success")
  => /\ PersistedStep(i)
     /\ pc = "exec" => LastExec.i = i

\* C5 witness: step 7 is executing after step 6 succeeded in this run.
C5_Witness ==
  /\ pc = "exec"
  /\ Len(executed) >= 2
  /\ LastExec.pos = 7
  /\ file.current_step = 7

\* C5 witness of the interruption: the run was interrupted while step 7 ran.
C5_InterruptedWitness ==
  /\ pc = "exited"
  /\ Len(executed) >= 2
  /\ LastExec.result = "interrupted"
  /\ LastExec.pos = 7
  /\ file.current_step = 7

\* No step has returned success in this process yet.
NoSuccessYet == \A n \in 1..Len(executed) : executed[n].result # "success"

\* C6: a state file written by the installer holds a current_step in 0..14,
\* and every step below it has succeeded since the file was last discarded.
C6_ProgressStateInvariant ==
  exists(file) =>
    /\ file.kind = "object"
    /\ file.current_step \in 0..NumSteps
    /\ \A p \in 0..(file.current_step - 1) : p \in succeeded

\* C6 witness: a later run has carried a state file found at 5 up to 9.
C6_Witness ==
  /\ start_file.kind = "object"
  /\ start_file.current_step = 5
  /\ file.kind = "object"
  /\ file.current_step = 9

\* C7 as stated: a run that does not resume (no state file, or resume
\* declined) has collected its configuration and starts at index 0, so no
\* step executes with a config that was neither collected nor restored.
C7_AsStated ==
  /\ (pc \in {"loop", "exec"} /\ resume # "yes") =>
       /\ collected
       /\ \A n \in 1..Len(executed) : executed[n].pos = n - 1
  /\ pc = "exec" => (collected \/ loaded = "ok")

\* The state file the process found cannot be loaded.
StartFileUnloadable ==
  /\ exists(start_file)
  /\ ~load_state(start_file, 0, InstallationConfig).ok

\* C8 as stated: when the state file exists but cannot be parsed or
\* converted, the run collects the configuration and starts at index 0, as
\* it does when there is no state file.
C8_AsStated ==
  (StartFileUnloadable /\ pc \in {"loop", "exec"}) =>
     /\ collected
     /\ \A n \in 1..Len(executed) : executed[n].pos = n - 1 /\ executed[n].i = n - 1

\* C10 as stated: in a fresh run no state file exists until the first step
\* has completed successfully.
C10_AsStated ==
  (start_file = NoFile /\ pc \notin {"off", "exited"} /\ NoSuccessYet)
  => ~exists(file)

\* C10 (amended): in a fresh run the state file is first written when
\* configuration collection ends, with current_step 0 and before any step
\* runs; it is removed when resume is declined, rewritten with the new index
\* and the config after every successful step, and removed on completion.
C10_Lifecycle ==
  /\ (start_file = NoFile /\ pc = "main") => ~exists(file)
  /\ (collected /\ resume # "no" /\ NoSuccessYet) => file = save_state(0, config)
  /\ (resume = "no" /\ NoSuccessYet) => ~exists(file)
  /\ (~NoSuccessYet /\ result # "success") => file = save_state(current_step, config)
  /\ (~NoSuccessYet /\ result # "success") => PersistedStep(i)
  /\ result = "success" => ~exists(file)

\* C10 witness: a fresh run declined the resume prompt and later saved
\* progress after its third step.
C10_Witness ==
  /\ start_file = NoFile
  /\ collected
  /\ resume = "no"
  /\ Len(executed) = 3
  /\ LastExec.result = "success"
  /\ file = save_state(3, config)

(***************************************************************************)
(* _load_state on its own                                                  *)
(***************************************************************************)

\* Files _save_state can have written.
WrittenFiles ==
  { save_state(k, c) :
      k \in 0..NumSteps,
      c \in { InstallationConfig,
              Collected(InstallationConfig, "canvas.example.com", TRUE,
                        FALSE, TRUE, FALSE) } }

\* Any file content, any current_step of the installer object.
InitLoad ==
  /\ file \in {NoFile} \cup WrittenFiles \cup
       { IF "current_step" \in f.keys THEN f ELSE [f EXCEPT !.current_step = 0] :
           f \in ForeignFiles }
  /\ current_step \in 0..NumSteps
  /\ config = InstallationConfig
  /\ pc = "call"
  /\ i = 0
  /\ pos = 0
  /\ exit_status = -1
  /\ result = "none"
  /\ collected = FALSE
  /\ resume = "none"
  /\ loaded = "none"
  /\ executed = << >>
  /\ succeeded = {}
  /\ start_file = file
  /\ step = NoStep
  /\ previous = NoRun
  /\ console = << >>
  /\ self_steps = steps
  /\ host = {}
  /\ answers = NoAnswers
  /\ written = IF file.kind = "object" THEN file.current_step ELSE -1

\* One call of _load_state().
LoadCall ==
  /\ pc = "call"
  /\ LET l == load_state(file, current_step, config)
     IN  /\ loaded' = IF l.raised THEN "raised" ELSE IF l.ok THEN "ok" ELSE "failed"
         /\ current_step' = l.current_step
         /\ config' = l.config
  /\ pc' = "returned"
  /\ UNCHANGED << file, i, pos, exit_status, result, collected, resume,
                  executed, succeeded, start_file, step,
                  previous >>
  /\ UNCHANGED console
  /\ UNCHANGED self_steps
  /\ UNCHANGED host
  /\ UNCHANGED answers
  /\ UNCHANGED written

NextLoad == LoadCall

SpecLoad == InitLoad /\ [][NextLoad]_vars

\* The file is a JSON object holding both current_step and a config that
\* from_dict accepts.
BothRestorable(f) ==
  /\ f.kind = "object"
  /\ {"current_step", "config"} \subseteq f.keys
  /\ f.configIsDict
  /\ DOMAIN f.config \subseteq Fields

\* C9 as stated: _load_state never raises, and it returns True only when
\* both current_step and the config were restored from the file (False for
\* a missing, empty, non-JSON or wrongly shaped file).
C9_AsStated ==
  pc = "returned" =>
    /\ loaded # "raised"
    /\ loaded = "ok" <=> BothRestorable(file)

\* C9 (amended): _load_state never raises; it returns False when the file is
\* missing, is not JSON, is JSON but not an object, or holds a config that is
\* not an object of known field names; otherwise it returns True, also for
\* an object without current_step or config, which yield 0 and the defaults.
C9_LoadNeverFatal ==
  pc = "returned" =>
    /\ loaded \in {"ok", "failed"}
    /\ loaded = "ok" <=>
         /\ file.kind = "object"
         /\ "config" \in file.keys => (file.configIsDict /\ DOMAIN file.config \subseteq Fields)
    /\ (loaded = "ok" /\ "current_step" \notin file.keys) => current_step = 0
    /\ (loaded = "ok" /\ "current_step" \in file.keys) => current_step = file.current_step
    /\ (loaded = "ok" /\ "config" \notin file.keys) => config = InstallationConfig
    /\ (loaded = "ok" /\ "config" \in file.keys) =>
         \A f \in Fields :
           config[f] = IF f \in DOMAIN file.config THEN file.config[f]
                       ELSE InstallationConfig[f]

\* C9 witness: _load_state returned True for an object with no keys.
C9_Witness ==
  /\ pc = "returned"
  /\ loaded = "ok"
  /\ file.kind = "object"
  /\ file.keys = {}

\* C9 witness of the failure cases: a config with an unknown key was refused.
C9_RefusedWitness ==
  /\ pc = "returned"
  /\ loaded = "failed"
  /\ file.kind = "object"
  /\ ~(DOMAIN file.config \subseteq Fields)

(***************************************************************************)
(* Properties of interruption, steps and exit                              *)
(***************************************************************************)

\* The step that ran last was ended by a KeyboardInterrupt.
StepInterrupted == executed # << >> /\ LastExec.result = "interrupted"

\* C11: a KeyboardInterrupt during step i ends the run with failure and no
\* later step, leaves the state file as it was when the step started, and the
\* next invocation that resumes starts at index i.
C11_InterruptSafety ==
  /\ [](StepInterrupted =>
          /\ pc = "exited"
          /\ result = "failure"
          /\ IF exists(file) THEN PersistedStep(LastExec.i) ELSE LastExec.i = 0)
  /\ []((previous.interrupted_at # -1 /\ resume = "yes") =>
          /\ (pc = "loop" /\ executed = << >>) => pos = previous.interrupted_at
          /\ executed # << >> => executed[1].pos = previous.interrupted_at)
  /\ [][(pc = "exec" /\ StepInterrupted') => file' = file]_vars

\* C11 witness: the run resumed at step 6, which the previous run had been
\* interrupted in, and is executing it again.
C11_Witness ==
  /\ previous.interrupted_at = 6
  /\ resume = "yes"
  /\ pc = "exec"
  /\ Len(executed) = 1
  /\ LastExec.pos = 6

\* C12 as stated: whatever interrupts _save_state, the state file is afterwards
\* a complete record (the previous or the new one), never empty or partial.
C12_AsStated == file.kind \in {"absent", "object"}

\* The step that ran last is the TLS or the editor-service step and its skip
\* flag is set.
LastStepSkipped ==
  \/ LastExec.pos = SSLIndex /\ config.skip_ssl
  \/ LastExec.pos = RCEIndex /\ config.skip_rce

\* C13: with its skip flag set, SSLStep / RCEStep invokes no command and does
\* not fail; with the flag clear it returns success only after it has invoked
\* commands.
C13_ConditionalNoOp ==
  executed # << >> =>
    /\ LastStepSkipped => (step.cmds = 0 /\ LastExec.result # "failure")
    /\ (LastExec.pos \in {SSLIndex, RCEIndex} /\ ~LastStepSkipped
          /\ LastExec.result = "success") => step.cmds >= 1

\* C13 witness: the TLS step returned success with skip_ssl set.
C13_Witness ==
  /\ executed # << >>
  /\ LastExec.pos = SSLIndex
  /\ config.skip_ssl
  /\ LastExec.result = "success"
  /\ step.cmds = 0

\* C13 witness of the other case: the editor-service step ran its commands.
C13_RanWitness ==
  /\ executed # << >>
  /\ LastExec.pos = RCEIndex
  /\ ~config.skip_rce
  /\ LastExec.result = "success"
  /\ step.cmds = 2

\* C14 as stated: no exception leaves execute(); whatever is raised inside it,
\* before the first command included, ends the step with a False return.
C14_AsStated ==
  \A n \in 1..Len(executed) :
    /\ executed[n].result # "raised"
    /\ (n = Len(executed) /\ step.exc # "none") => executed[n].result = "failure"

\* The reason shown for a timeout at position p is shown for a timeout only.
IdentifiesTimeout(p) ==
  \A e \in FailureCauses(p) \ {"TimeoutExpired"} : Reason(p, e) # step.reason

\* The step that ran last ended because a command timed out.
TimedOut == executed # << >> /\ step.exc = "TimeoutExpired"

\* A timeout has ended the run the way a failed command does.
HaltsRun ==
  /\ LastExec.result = "failure"
  /\ pc = "exited"
  /\ result = "failure"
  /\ exit_status = 1

\* C15 as stated: a command that exceeds its timeout fails the step and halts
\* the run, and the reason shown identifies a timeout.
C15_AsStated ==
  TimedOut => (HaltsRun /\ IdentifiesTimeout(LastExec.pos))

\* C16: the process exits 0 exactly when run_installation returned success,
\* which it does only with the whole pipeline done; it exits 1 otherwise.
C16_ExitStatus ==
  pc = "exited" =>
    /\ exit_status = 0 <=> result = "success"
    /\ exit_status # 0 => exit_status = 1
    /\ result = "success" =>
         /\ pos = Len(self_steps)
         /\ \A n \in 1..Len(executed) : executed[n].result = "success"

\* C16 witness: a run of all 14 steps has exited with status 0.
C16_Witness ==
  /\ pc = "exited"
  /\ exit_status = 0
  /\ Len(executed) = NumSteps

\* C16 witness of a failure: an interrupted run has exited with status 1.
C16_FailureWitness ==
  /\ pc = "exited"
  /\ exit_status = 1
  /\ StepInterrupted

\* The process ended in main's privilege check.
PrivilegeDenied == pc = "exited" /\ result = "none"

\* C17: when the privilege check fails the process exits non-zero with no
\* configuration collected, no step executed and the state file neither read,
\* written nor deleted.
C17_PrivilegeFirst ==
  PrivilegeDenied =>
    /\ exit_status # 0
    /\ ~collected
    /\ executed = << >>
    /\ resume = "none"
    /\ loaded = "none"
    /\ file = start_file

\* C17 witness: the check failed on a host without a state file.
C17_Witness ==
  /\ PrivilegeDenied
  /\ ~exists(start_file)

\* C17 witness with a state file left by an earlier run.
C17_StateWitness ==
  /\ PrivilegeDenied
  /\ exists(start_file)
  /\ previous.result = "failure"

\* C18: the invocation after a successful one finds no state file, collects
\* the configuration again and executes the steps from index 0.
C18_IdempotentRestart ==
  (previous.result = "success" /\ ~PrivilegeDenied /\ pc # "main") =>
    /\ ~exists(start_file)
    /\ collected
    /\ (pc = "loop" /\ executed = << >>) => pos = 0
    /\ \A n \in 1..Len(executed) : executed[n].pos = n - 1

\* C18 witness: the second run is executing its third step.
C18_Witness ==
  /\ previous.result = "success"
  /\ pc = "exec"
  /\ Len(executed) = 3

\* C19: while a step executes, and when it fails, config, current_step and
\* the state file stay as they are; when it succeeds config stays as it is
\* and the file written is the orchestrator's record of that config.
C19_StepFrame ==
  [][pc = "exec" =>
       /\ config' = config
       /\ pc' # "loop" => (current_step' = current_step /\ file' = file)
       /\ pc' = "loop" => file' = save_state(i + 1, config)]_vars

\* C19 witness: the configuration step has written two of its files.
C19_Witness ==
  /\ pc = "exec"
  /\ LastExec.pos = 5
  /\ step.cmds = 2

\* C20: in a run the steps executed have consecutive increasing positions,
\* none twice, and only the last of them can be executing.
C20_StrictlySequential ==
  /\ \A n \in 2..Len(executed) : executed[n].pos = executed[n - 1].pos + 1
  /\ \A m, n \in 1..Len(executed) : m # n => executed[m].pos # executed[n].pos
  /\ \A n \in 1..Len(executed) :
       executed[n].result = "running" => (n = Len(executed) /\ pc = "exec")
  /\ pc = "exec" => (executed # << >> /\ LastExec.result = "running")

\* C20 witness: the fifth step of a run is executing.
C20_Witness ==
  /\ pc = "exec"
  /\ Len(executed) = 5
  /\ LastExec.pos = 4

(***************************************************************************)
(* Properties of the reports, the pipeline and the configuration           *)
(***************************************************************************)

\* The indices in console of the lines of kind k that name position p.
Notes(k, p) ==
  {n \in 1..Len(console) : console[n].kind = k /\ console[n].pos = p}

\* The lines of kind k, in the order printed.
NotesOfKind(k) == SelectSeq(console, LAMBDA note : note.kind = k)

\* Every step executed so far in this run has returned True.
AllSucceeded ==
  \A n \in 1..Len(executed) : executed[n].result = "success"

\* C21 as stated: while all executed steps succeed, each of them has exactly
\* one success notification naming it, a skipped TLS or editor-service step
\* included, and the success notifications follow the pipeline order.
C21_AsStated ==
  AllSucceeded =>
    /\ \A n \in 1..Len(executed) :
         Cardinality(Notes("success", executed[n].pos)) = 1
    /\ Len(NotesOfKind("success")) = Len(executed)
    /\ \A n \in 1..Len(NotesOfKind("success")) :
         NotesOfKind("success")[n].pos = executed[n].pos

\* The step that ran last returned False.
StepFailed == executed # << >> /\ LastExec.result = "failure"

C22_PrerequisitesWitness ==
  /\ StepFailed
  /\ LastExec.pos = 0
  /\ step.reason = "No internet connection"

(***************************************************************************)
(* The single-file installer (src/canvas_installer.py)                     *)
(***************************************************************************)

\* self.total_steps of the single-file CanvasInstaller.
single_total_steps == 13

\* Its self.steps: the display names, in pipeline order.
single_steps ==
  << "System Prerequisites Check", "Create Canvas User",
     "Install PostgreSQL & Setup Databases",
     "Install Git, Ruby, Node.js & Yarn", "Clone & Install Canvas LMS",
     "Configure Database, Mail & Domain",
     "Install Dependencies & Compile Assets", "Install & Configure Apache",
     "Setup SSL Certificate", "Configure Virtual Hosts",
     "Setup Jobs & Firewall", "Setup Redis Cache",
     "Enable Rich Content Editor", "Set Permissions & Optimization" >>

\* Positions whose method has a `return False`; the methods of the other
\* positions only print and return True.
SingleFallible == {0, 1, 2, 3}

\* The state files its _save_state writes: after collect_configuration
\* (current_step 0) or after a step of an earlier run.
SingleFiles ==
  { save_state(k, Collected(InstallationConfig, "canvas.example.com", FALSE,
                            rce, ssl, TRUE)) :
      k \in 0..Len(single_steps), rce \in BOOLEAN, ssl \in BOOLEAN }

\* run_installation is entered; main has found or written the state file.
InitSingle ==
  /\ file \in SingleFiles
  /\ current_step = 0
  /\ config \in {InstallationConfig, from_dict(file.config)}
  /\ (config = InstallationConfig) \/ (file.current_step = 0)
  /\ pc = "single_run"
  /\ i = 0
  /\ pos = 0
  /\ exit_status = -1
  /\ result = "none"
  /\ collected = (config # InstallationConfig)
  /\ resume = "none"
  /\ loaded = "none"
  /\ executed = << >>
  /\ succeeded = {}
  /\ start_file = file
  /\ step = NoStep
  /\ previous = NoRun
  /\ console = << >>
  /\ self_steps = single_steps
  /\ host = {}
  /\ answers = NoAnswers
  /\ written = IF file.kind = "object" THEN file.current_step ELSE -1

\* The resume prompt: _load_state on yes, os.remove and current_step = 0 on
\* no.
SingleRunStart ==
  /\ pc = "single_run"
  /\ \E answer \in BOOLEAN :
       IF answer
         THEN /\ resume' = "yes"
              /\ loaded' = "ok"
              /\ current_step' = file.current_step
              /\ config' = from_dict(file.config)
              /\ UNCHANGED file
         ELSE /\ resume' = "no"
              /\ file' = NoFile
              /\ current_step' = 0
              /\ UNCHANGED << config, loaded >>
  /\ i' = current_step'
  /\ pos' = SliceStart(current_step')
  /\ pc' = "single_loop"
  /\ UNCHANGED << exit_status, result, collected, executed, succeeded,
                  start_file, step, previous, console >>
  /\ UNCHANGED self_steps
  /\ UNCHANGED host
  /\ UNCHANGED answers
  /\ written' = IF exists(file') THEN written ELSE -1

\* Loop body up to the call: "Step {i + 1}/{self.total_steps}: {step_name}"
\* is printed and step_func() is called.
SingleStepStart ==
  /\ pc = "single_loop"
  /\ pos < Len(self_steps)
  /\ console' = Append(console,
       [kind |-> "start", pos |-> pos, position |-> i + 1,
        total |-> single_total_steps, reason |-> "none"])
  /\ executed' = Append(executed, Exec(pos, i, "running"))
  /\ pc' = "single_exec"
  /\ UNCHANGED << file, current_step, config, i, pos, exit_status, result,
                  collected, resume, loaded, succeeded, start_file, step,
                  previous >>
  /\ UNCHANGED self_steps
  /\ UNCHANGED host
  /\ UNCHANGED answers
  /\ UNCHANGED written

\* step_func() returned True: current_step = i + 1 and _save_state().
SingleStepSuccess ==
  /\ pc = "single_exec"
  /\ current_step' = i + 1
  /\ file' = save_state(current_step', config)
  /\ executed' = Ended("success")
  /\ succeeded' = succeeded \cup {pos}
  /\ i' = i + 1
  /\ pos' = pos + 1
  /\ pc' = "single_loop"
  /\ UNCHANGED << config, exit_status, result, collected, resume, loaded,
                  start_file, step, previous, console >>
  /\ UNCHANGED self_steps
  /\ UNCHANGED host
  /\ UNCHANGED answers
  /\ written' = current_step'

\* step_func() returned False: "Installation failed at step" and return.
SingleStepFailure ==
  /\ pc = "single_exec"
  /\ pos \in SingleFallible
  /\ executed' = Ended("failure")
  /\ console' = Append(console, Note("failed at", pos, "none"))
  /\ result' = "failure"
  /\ Exit(1)
  /\ UNCHANGED << file, current_step, config, i, pos, collected, resume,
                  loaded, succeeded, start_file, step, previous >>
  /\ UNCHANGED self_steps
  /\ UNCHANGED host
  /\ UNCHANGED answers
  /\ UNCHANGED written

\* The loop is exhausted: the state file is removed, main exits 0.
SingleComplete ==
  /\ pc = "single_loop"
  /\ pos = Len(self_steps)
  /\ file' = NoFile
  /\ succeeded' = {}
  /\ console' = Append(console, Note("completed", -1, "none"))
  /\ result' = "success"
  /\ Exit(0)
  /\ UNCHANGED << current_step, config, i, pos, collected, resume, loaded,
                  executed, start_file, step, previous >>
  /\ UNCHANGED self_steps
  /\ UNCHANGED host
  /\ UNCHANGED answers
  /\ written' = -1

NextSingle ==
  \/ SingleRunStart
  \/ SingleStepStart
  \/ SingleStepSuccess
  \/ SingleStepFailure
  \/ SingleComplete

SpecSingle == InitSingle /\ [][NextSingle]_vars

\* The lines "Step position/total" printed so far.
StartNotes == NotesOfKind("start")

\* C23 as stated: every executed step with index i has a start notification
\* with position i + 1 and total 14, printed before execute is invoked; the
\* total of every start notification is the number of steps of the pipeline
\* and its position is at most the total, in both installers.
C23_AsStated ==
  /\ Len(StartNotes) = Len(executed)
  /\ \A n \in 1..Len(StartNotes) :
       /\ StartNotes[n].pos = executed[n].pos
       /\ StartNotes[n].position = executed[n].i + 1
       /\ StartNotes[n].total = total_steps
       /\ StartNotes[n].total = Len(single_steps)
       /\ StartNotes[n].total = NumSteps
       /\ StartNotes[n].position <= StartNotes[n].total

\* The step names of the pipeline are pairwise distinct.
DistinctNames ==
  \A a, b \in 1..Len(self_steps) : a # b => self_steps[a] # self_steps[b]

\* C24: the pipeline has exactly 14 steps with pairwise distinct names, it is
\* the list written in __init__ in every run, the loop's index i names the
\* step at position i of it, and no operation adds, removes or reorders
\* steps.
C24_PipelineFixed ==
  /\ [](/\ Len(self_steps) = 14
        /\ Len(self_steps) = total_steps
        /\ self_steps = steps
        /\ DistinctNames
        /\ \A n \in 1..Len(executed) : executed[n].pos = executed[n].i)
  /\ [][self_steps' = self_steps]_vars

\* C24 witness: a run that resumed after a failed run is executing the step
\* at index 5.
C24_Witness ==
  /\ previous.result = "failure"
  /\ resume = "yes"
  /\ pc = "exec"
  /\ LastExec.i = 5
  /\ self_steps[LastExec.pos + 1] = "Configure Database, Mail & Domain"

(***************************************************************************)
(* Repeated invocation of one step's execute() on the same host            *)
(***************************************************************************)

\* Invocations of execute() followed at one index.
MaxInvocations == 3

\* What each command of a step leaves on the host ("none": nothing that is
\* followed here, e.g. apt-get install -y, chown, cp, a configuration file
\* written over).  A command that creates something exits non-zero when it
\* is there already: adduser, CREATE USER, createdb, createuser, git clone.
Commands(p) ==
  CASE p = 1  -> << "os user canvas", "sudo member canvas" >>
    [] p = 2  -> << "none", "role canvas", "db canvas_production",
                    "db canvas_development", "role USER", "none" >>
    [] p = 4  -> << "/var/canvas", "none", "none" >>
    [] p = 12 -> << "/var/canvas-rce-api", "none", "none", "none" >>
    [] OTHER  -> << "none", "none" >>

\* The step variants followed: CanvasUserStep, PostgreSQLStep,
\* CloneCanvasStep, ApacheStep, RCEStep.
RetrySteps == {1, 2, 4, 7, 12}

\* Effects of commands that can be repeated: usermod -aG adds a member
\* that is there already without complaint.
Repeatable == {"none", "sudo member canvas"}

\* CanvasUserStep returns True at once when `id canvas`, its first action,
\* finds the user.
ReturnsEarly(p, h) == p = 1 /\ "os user canvas" \in h

\* A host on which the step at one index is about to be executed for the
\* first time.
InitRetry ==
  /\ pos \in RetrySteps
  /\ pc = "retry_idle"
  /\ host = {}
  /\ executed = << >>
  /\ step = NoStep
  /\ file = NoFile
  /\ current_step = pos
  /\ config = Collected(InstallationConfig, "canvas.example.com", FALSE, TRUE,
                        TRUE, TRUE)
  /\ i = pos
  /\ exit_status = -1
  /\ result = "none"
  /\ collected = TRUE
  /\ resume = "none"
  /\ loaded = "none"
  /\ succeeded = {}
  /\ start_file = NoFile
  /\ previous = NoRun
  /\ console = << >>
  /\ self_steps = steps
  /\ answers = NoAnswers
  /\ written = IF file.kind = "object" THEN file.current_step ELSE -1

\* execute() is entered at the index (by the first run, or by a run that
\* resumes there after the failure).
RetryInvoke ==
  /\ pc = "retry_idle"
  /\ Len(executed) < MaxInvocations
  /\ IF executed = << >> THEN TRUE ELSE LastExec.result = "failure"
  /\ executed' = Append(executed, Exec(pos, i, "running"))
  /\ step' = NoStep
  /\ pc' = "retry_exec"
  /\ UNCHANGED << file, current_step, config, i, pos, exit_status, result,
                  collected, resume, loaded, succeeded, start_file, previous,
                  console, self_steps, host >>
  /\ UNCHANGED answers
  /\ UNCHANGED written

\* The next command runs and exits 0, leaving what it creates.
RetryCommand ==
  /\ pc = "retry_exec"
  /\ ~(step.cmds = 0 /\ ReturnsEarly(pos, host))
  /\ step.cmds < Len(Commands(pos))
  /\ Commands(pos)[step.cmds + 1] \notin (host \ Repeatable)
  /\ step' = [step EXCEPT !.cmds = @ + 1]
  /\ host' = host \cup ({Commands(pos)[step.cmds + 1]} \ {"none"})
  /\ UNCHANGED << file, current_step, config, pc, i, pos, exit_status, result,
                  collected, resume, loaded, executed, succeeded, start_file,
                  previous, console, self_steps >>
  /\ UNCHANGED answers
  /\ UNCHANGED written

\* The next command exits non-zero because what it creates exists already;
\* run_command raises CalledProcessError and execute() returns False.
RetryCommandRefused ==
  /\ pc = "retry_exec"
  /\ ~(step.cmds = 0 /\ ReturnsEarly(pos, host))
  /\ step.cmds < Len(Commands(pos))
  /\ Commands(pos)[step.cmds + 1] \in (host \ Repeatable)
  /\ step' = [step EXCEPT !.exc = "CalledProcessError",
                          !.reason = CommandReason("CalledProcessError")]
  /\ executed' = Ended("failure")
  /\ pc' = "retry_idle"
  /\ UNCHANGED << file, current_step, config, i, pos, exit_status, result,
                  collected, resume, loaded, succeeded, start_file, previous,
                  console, self_steps, host >>
  /\ UNCHANGED answers
  /\ UNCHANGED written

\* The next command fails for a cause outside the step (network down, disk
\* full, service stopped) and leaves nothing; execute() returns False.
RetryCommandBroken ==
  /\ pc = "retry_exec"
  /\ ~(step.cmds = 0 /\ ReturnsEarly(pos, host))
  /\ step.cmds < Len(Commands(pos))
  /\ step' = [step EXCEPT !.exc = "ExternalCause",
                          !.reason = CommandReason("CalledProcessError")]
  /\ executed' = Ended("failure")
  /\ pc' = "retry_idle"
  /\ UNCHANGED << file, current_step, config, i, pos, exit_status, result,
                  collected, resume, loaded, succeeded, start_file, previous,
                  console, self_steps, host >>
  /\ UNCHANGED answers
  /\ UNCHANGED written

\* All commands have run (or the step returned early): log_success() and
\* return True.
RetryReturn ==
  /\ pc = "retry_exec"
  /\ (step.cmds = 0 /\ ReturnsEarly(pos, host)) \/ step.cmds = Len(Commands(pos))
  /\ executed' = Ended("success")
  /\ pc' = "retry_idle"
  /\ UNCHANGED << file, current_step, config, i, pos, exit_status, result,
                  collected, resume, loaded, succeeded, start_file, step,
                  previous, console, self_steps, host >>
  /\ UNCHANGED answers
  /\ UNCHANGED written

NextRetry ==
  \/ RetryInvoke
  \/ RetryCommand
  \/ RetryCommandRefused
  \/ RetryCommandBroken
  \/ RetryReturn

SpecRetry == InitRetry /\ [][NextRetry]_vars

\* C25 as stated: when an invocation of execute() failed partway and the
\* next invocation at the same index meets no outside cause of failure, that
\* invocation returns success: what the earlier one left on the host does
\* not make it fail.
C25_AsStated ==
  (/\ pc = "retry_idle"
   /\ Len(executed) >= 2
   /\ executed[Len(executed) - 1].result = "failure"
   /\ step.exc # "ExternalCause")
    => LastExec.result = "success"

DiscardVanished ==
  /\ pc = "run"
  /\ exists(file)
  /\ resume' = "no"
  /\ file' = NoFile
  /\ result' = "raised"
  /\ Exit(1)
  /\ UNCHANGED << current_step, config, i, pos, collected, loaded, executed,
                  succeeded, start_file, step, previous, console, self_steps,
                  host >>
  /\ UNCHANGED answers
  /\ written' = -1

NextEnv ==
  \/ Next
  \/ DiscardVanished

SpecEnv == Init /\ [][NextEnv]_vars

\* C27 as stated: removing the state file when none exists is a no-op that
\* raises no error and leaves the state absent, at the discard of a declined
\* resume and at pipeline completion.
C27_AsStated ==
  /\ resume = "no" =>
       /\ result # "raised"
       /\ (pc = "loop" /\ executed = << >>) => ~exists(file)
  /\ result = "success" => ~exists(file)

\* C28: after collect_configuration, skip_ssl is true iff the TLS question
\* was declined, skip_optimization iff the download-optimization question
\* was declined, and skip_rce iff the editor-service question was declined.
C28_FeatureToggles ==
  answers.asked =>
    /\ config.skip_ssl <=> ~answers.ssl
    /\ config.skip_optimization <=> ~answers.opt
    /\ config.skip_rce <=> ~answers.rce

\* C28 witness: the editor service was declined and TLS accepted.
C28_Witness ==
  /\ answers.asked
  /\ ~answers.rce
  /\ answers.ssl
  /\ ~answers.opt
  /\ config.skip_rce
  /\ ~config.skip_ssl
  /\ config.skip_optimization
  /\ pc = "run"

\* The process found a state file and the user accepted the resume prompt.
ResumedFromFile == exists(start_file) /\ resume = "yes"

\* C29: when the process finds a state file that loads and the user accepts
\* resume, no configuration is collected, the config every step of the run
\* receives equals the one in that file, and execution starts at the file's
\* current_step.
C29_ResumeRestoresConfig ==
  ResumedFromFile =>
    /\ loaded = "ok"
    /\ ~collected
    /\ ~answers.asked
    /\ config = from_dict(start_file.config)
    /\ to_dict(config) = start_file.config
    /\ (pc = "loop" /\ executed = << >>) => pos = start_file.current_step
    /\ executed # << >> =>
         /\ executed[1].i = start_file.current_step
         /\ executed[1].pos = start_file.current_step

\* C29 witness: a run resumed at index 3 with a collected config and is
\* executing its second step.
C29_Witness ==
  /\ ResumedFromFile
  /\ start_file.current_step = 3
  /\ pc = "exec"
  /\ Len(executed) = 2
  /\ config.domain = "canvas.example.com"
  /\ config.skip_rce

(***************************************************************************)
(* PrerequisitesStep (steps/step_01_prerequisites.py)                      *)
(***************************************************************************)

\* The five checks of PrerequisitesStep.execute, in the order of its list.
Checks ==
  << "Operating System", "Root/Sudo Access", "Hardware Requirements",
     "Internet Connectivity", "Disk Space" >>

\* What a SystemChecker check can meet on a host: the requirement holds, it
\* does not, or the probe itself raises (file unreadable, command missing,
\* timeout).
CheckOutcomes == {"pass", "fail", "raises"}

\* What check_func() hands to the step: (True, ...) when the requirement
\* holds, (False, ...) when it does not, and (False, "Cannot ...") from the
\* check's own `except:` when the probe raised.
CheckResult(outcome) == outcome = "pass"

\* The installer is about to execute step 0 on some host.
InitPrereq ==
  /\ host \in [1..Len(Checks) -> CheckOutcomes]
  /\ pc = "loop"
  /\ pos = 0
  /\ i = 0
  /\ current_step = 0
  /\ config = Collected(InstallationConfig, "canvas.example.com", FALSE, TRUE,
                        TRUE, TRUE)
  /\ file = save_state(0, config)
  /\ exit_status = -1
  /\ result = "none"
  /\ collected = TRUE
  /\ resume = "yes"
  /\ loaded = "ok"
  /\ executed = << >>
  /\ succeeded = {}
  /\ start_file = NoFile
  /\ step = NoStep
  /\ previous = NoRun
  /\ console = << >>
  /\ self_steps = steps
  /\ answers = Answers(FALSE, TRUE, TRUE, TRUE)
  /\ written = IF file.kind = "object" THEN file.current_step ELSE -1

\* Variant: the loop over the checks stopped at the first check that did
\* not pass.
PrereqCheck_StopsAtFailure ==
  /\ pc = "exec"
  /\ pos = 0
  /\ step.cmds < Len(Checks)
  /\ console' = Append(console, Note("check", step.cmds + 1, "none"))
  /\ step' = IF CheckResult(host[step.cmds + 1])
               THEN [step EXCEPT !.cmds = @ + 1]
               ELSE [step EXCEPT !.cmds = Len(Checks), !.exc = "CheckFailed"]
  /\ UNCHANGED << file, current_step, config, pc, i, pos, exit_status, result,
                  collected, resume, loaded, executed, succeeded, start_file,
                  previous, self_steps, host, answers >>
  /\ UNCHANGED written

\* One turn of the loop over the checks: check_func() is called, its row is
\* added to the table, and all_passed is cleared when it did not pass (or
\* raised into the loop's `except Exception`).
PrereqCheck ==
  /\ pc = "exec"
  /\ pos = 0
  /\ step.cmds < Len(Checks)
  /\ console' = Append(console, Note("check", step.cmds + 1, "none"))
  /\ step' = IF CheckResult(host[step.cmds + 1])
               THEN [step EXCEPT !.cmds = @ + 1]
               ELSE [step EXCEPT !.cmds = @ + 1, !.exc = "CheckFailed"]
  /\ UNCHANGED << file, current_step, config, pc, i, pos, exit_status, result,
                  collected, resume, loaded, executed, succeeded, start_file,
                  previous, self_steps, host, answers >>
  /\ UNCHANGED written

\* After the loop: the table is printed; `if not all_passed: return False`,
\* on which run_installation returns False; otherwise log_success(), return
\* True, and the installer saves current_step = 1.
PrereqReturn ==
  /\ pc = "exec"
  /\ pos = 0
  /\ step.cmds = Len(Checks)
  /\ IF step.exc = "none"
       THEN /\ executed' = Ended("success")
            /\ console' = console \o ReturnNotes(pos, config)
            /\ current_step' = i + 1
            /\ file' = save_state(current_step', config)
            /\ succeeded' = succeeded \cup {pos}
            /\ i' = i + 1
            /\ pos' = pos + 1
            /\ pc' = "loop"
            /\ UNCHANGED << exit_status, result >>
       ELSE /\ executed' = Ended("failure")
            /\ console' = console \o FailureNotes(pos, "checks failed")
            /\ result' = "failure"
            /\ Exit(1)
            /\ UNCHANGED << file, current_step, succeeded, i, pos >>
  /\ UNCHANGED << config, collected, resume, loaded, start_file, step,
                  previous, self_steps, host, answers >>
  /\ written' = IF step.exc = "none" THEN current_step' ELSE written

\* The loop of run_installation around PrerequisitesStep: the step is
\* started, runs its checks and returns; after a success the next step is
\* started.
NextPrereq ==
  \/ (pos <= 1 /\ StepStart)
  \/ PrereqCheck
  \/ PrereqReturn

SpecPrereq == InitPrereq /\ [][NextPrereq]_vars

\* PrerequisitesStep.execute has returned.
PrereqReturned == executed # << >> /\ executed[1].result # "running"

\* C30: PrerequisitesStep.execute returns success iff all five checks pass;
\* every check is evaluated, also after one that failed; a check whose probe
\* raises counts as failed; and after a failure of the step no other step
\* runs.
C30_PrerequisitesGate ==
  PrereqReturned =>
    /\ executed[1].result = "success" <=>
         \A k \in 1..Len(Checks) : host[k] = "pass"
    /\ Len(Checks) = 5
    /\ \A k \in 1..Len(Checks) : Cardinality(Notes("check", k)) = 1
    /\ (\E k \in 1..Len(Checks) : host[k] = "raises") =>
         executed[1].result = "failure"
    /\ executed[1].result = "failure" =>
         /\ Len(executed) = 1
         /\ pc = "exited"
         /\ result = "failure"
         /\ \A n \in 1..Len(console) :
              console[n].kind = "start" => console[n].pos = 0

\* C30 witness: the first check failed, the probe of the fourth raised, all
\* five were evaluated and the run ended.
C30_Witness ==
  /\ PrereqReturned
  /\ host[1] = "fail"
  /\ host[4] = "raises"
  /\ host[5] = "pass"
  /\ Notes("check", 5) # {}
  /\ pc = "exited"

\* C30 witness of the success: all checks passed and the next step started.
C30_PassedWitness ==
  /\ PrereqReturned
  /\ executed[1].result = "success"
  /\ Len(executed) = 2
  /\ pc = "exec"

(***************************************************************************)
(* Properties of the resume prompt and of a refused load                   *)
(***************************************************************************)

\* C31 as stated: a process that found no state file when it started, and
\* collected the configuration, reaches the step loop without having been
\* asked whether to resume a previous installation.
C31_AsStated ==
  (~exists(start_file) /\ collected /\ pc \in {"loop", "exec", "exited"}) =>
    resume = "none"

\* C32 as stated: a call of _load_state that returns False leaves
\* self.current_step and self.config as they were before the call.
C32_AsStated ==
  [][(LoadCall /\ loaded' = "failed") =>
       (current_step' = current_step /\ config' = config)]_vars

(***************************************************************************)
(* Properties of the persisted index across runs                           *)
(***************************************************************************)

\* C33 as stated: unless the state file is removed (resume declined, or the
\* installation completed), the current_step a write leaves in the state
\* file is never lower than the one the write before it left there.
C33_AsStated ==
  [][(exists(file') /\ resume' # "no") => written' >= written]_vars

(***************************************************************************)
(* A save that fails                                                       *)
(***************************************************************************)

\* Variant: _save_state() were called outside the try block, so that its
\* exception left run_installation and main.
SaveRaises_Escapes ==
  /\ pc = "exec"
  /\ (pos \in CommandSteps /\ ~ShortCircuits(pos, config)) => step.cmds >= 1
  /\ current_step' = i + 1
  /\ \E f \in {file, GarbageFile} : file' = f
  /\ executed' = Ended("success")
  /\ succeeded' = succeeded \cup {pos}
  /\ step' = [step EXCEPT !.exc = "OSError"]
  /\ result' = "raised"
  /\ Exit(1)
  /\ console' = console \o ReturnNotes(pos, config)
  /\ UNCHANGED << config, i, pos, collected, resume, loaded, start_file,
                  previous, self_steps, host, answers, written >>

\* execute() returned True and _save_state() raises: open(state_file, 'w')
\* is refused and the file stays as it was, or the disk fills while
\* json.dump writes and the file is left incomplete.  The call is inside the
\* try block, so `except Exception` prints the error and run_installation
\* returns False; main exits 1.
SaveRaises ==
  /\ pc = "exec"
  /\ (pos \in CommandSteps /\ ~ShortCircuits(pos, config)) => step.cmds >= 1
  /\ current_step' = i + 1
  /\ \E f \in {file, GarbageFile} : file' = f
  /\ executed' = Ended("success")
  /\ succeeded' = succeeded \cup {pos}
  /\ step' = [step EXCEPT !.exc = "OSError"]
  /\ result' = "failure"
  /\ Exit(1)
  /\ console' = console \o ReturnNotes(pos, config)
                  \o << Note("error", -1, "error") >>
  /\ UNCHANGED << config, i, pos, collected, resume, loaded, start_file,
                  previous, self_steps, host, answers, written >>

\* The installer on a host where writing the state file can fail.
NextDisk ==
  \/ Next
  \/ SaveRaises

SpecDisk == Init /\ [][NextDisk]_vars

\* The last step of this process returned success and the save after it
\* raised.
SaveRaised ==
  /\ executed # << >>
  /\ LastExec.result = "success"
  /\ step.exc = "OSError"

\* C35: when _save_state raises after step i returned success, the run stops
\* there: no further step is started, run_installation returns False (the
\* exception does not leave it), and the process exits with status 1.
C35_SaveFailureHalts ==
  SaveRaised =>
    /\ pc = "exited"
    /\ result = "failure"
    /\ exit_status = 1
    /\ console[Len(console)].kind = "error"
    /\ \A k \in 1..Len(console) :
         console[k].kind = "start" => console[k].pos <= LastExec.pos

\* C35 witness: the save after the third step raised and left the file
\* incomplete.
C35_Witness ==
  /\ SaveRaised
  /\ LastExec.pos = 2
  /\ file = GarbageFile
  /\ result = "failure"

(***************************************************************************)
(* Configuration collection that is interrupted                            *)
(***************************************************************************)

\* The fields each prompt group of collect_configuration assigns, in the
\* order asked: domain, password, e-mail settings, editor keys, TLS,
\* download optimisation.
Prompts ==
  << {"domain"},
     {"canvas_password"},
     {"smtp_server", "smtp_port", "smtp_username", "smtp_password",
      "smtp_from_email", "smtp_from_name"},
     {"flickr_api_key", "youtube_api_key", "skip_rce"},
     {"skip_ssl"},
     {"skip_optimization"} >>

\* self.config when the first n prompt groups have been answered.
Partial(c, full, n) ==
  [f \in Fields |-> IF \E k \in 1..n : f \in Prompts[k] THEN full[f] ELSE c[f]]

\* The exit status of an interpreter ended by an unhandled KeyboardInterrupt.
SigintStatus == 130

\* Variant: collect_configuration saved the state after every prompt.
CollectionInterrupted_SavesAsItGoes ==
  /\ pc = "main"
  /\ ~exists(file)
  /\ \E dom \in DomainInputs, smtp, rce, ssl \in BOOLEAN, n \in 0..(Len(Prompts) - 1) :
       config' = Partial(config, Collected(config, dom, smtp, rce, ssl, TRUE), n)
  /\ file' = save_state(current_step, config')
  /\ written' = current_step
  /\ collected' = TRUE
  /\ result' = "raised"
  /\ Exit(SigintStatus)
  /\ UNCHANGED << current_step, i, pos, resume, loaded, executed, succeeded,
                  start_file, step, previous, console, self_steps, host,
                  answers >>

\* main calls collect_configuration and the user presses Ctrl-C at a prompt
\* before the last one is answered.  Neither collect_configuration nor main
\* handles KeyboardInterrupt, and _save_state() is the last statement of
\* collect_configuration: the interpreter ends with nothing written.
CollectionInterrupted ==
  /\ pc = "main"
  /\ ~exists(file)
  /\ \E dom \in DomainInputs, smtp, rce, ssl \in BOOLEAN, n \in 0..(Len(Prompts) - 1) :
       config' = Partial(config, Collected(config, dom, smtp, rce, ssl, TRUE), n)
  /\ collected' = TRUE
  /\ result' = "raised"
  /\ Exit(SigintStatus)
  /\ UNCHANGED << file, current_step, i, pos, resume, loaded, executed,
                  succeeded, start_file, step, previous, console, self_steps,
                  host, answers, written >>

\* The installer with a user who may abort the configuration prompts.
NextAbort ==
  \/ Next
  \/ CollectionInterrupted

SpecAbort == Init /\ [][NextAbort]_vars

\* The process before this one was interrupted during collection (the exit
\* status stays until this process exits).
AfterAbortedCollection ==
  /\ exit_status = SigintStatus
  /\ pc \notin {"off", "exited"}

\* C36: a process interrupted during configuration collection leaves no
\* state file; the next invocation therefore collects the configuration
\* anew, from the first prompt to the last, and the only state it can be
\* asked to resume is the one it has itself saved from that complete
\* collection.
C36_AbortedCollectionLeavesNoState ==
  /\ (pc = "exited" /\ exit_status = SigintStatus) =>
       (~exists(file) /\ file = start_file)
  /\ AfterAbortedCollection => ~exists(start_file)
  /\ (AfterAbortedCollection /\ pc = "main") =>
       (~exists(file) /\ config = InstallationConfig)
  /\ (AfterAbortedCollection /\ pc \in {"run", "loop", "exec"}) =>
       /\ collected
       /\ answers.asked
       /\ \E dom \in DomainInputs :
            Collected(InstallationConfig, dom, answers.smtp, answers.rce,
                      answers.ssl, answers.opt)
              \in {config, from_dict(to_dict(config))}
       /\ exists(file) => file.config = to_dict(config)

\* C36 witness: the process after an interrupted collection has collected
\* a complete configuration and is executing its first step.
C36_Witness ==
  /\ AfterAbortedCollection
  /\ previous.result = "raised"
  /\ pc = "exec"
  /\ pos = 0
  /\ config.canvas_password = "secret"

\* C36 witness of the interruption: the process ended at the TLS prompt with
\* the domain and the password entered, and no file.
C36_AbortedWitness ==
  /\ pc = "exited"
  /\ exit_status = SigintStatus
  /\ config.domain = "canvas.example.com"
  /\ config.canvas_password = "secret"
  /\ config.skip_rce
  /\ ~exists(file)

(***************************************************************************)
(* Properties of the user-creation step                                    *)
(***************************************************************************)

\* C37 as stated: whenever an invocation of CanvasUserStep.execute returns
\* success, the canvas user exists and is a member of the sudo group, also
\* when an earlier invocation created the user and failed before usermod.
C37_AsStated ==
  (/\ pc = "retry_idle"
   /\ pos = 1
   /\ executed # << >>
   /\ LastExec.result = "success")
    => {"os user canvas", "sudo member canvas"} \subseteq host

(***************************************************************************)
(* Runs that are repeated until the installation completes                 *)
(***************************************************************************)

\* The installer is started with sudo, for the first time or again after a
\* run that did not complete.
LiveMainStart ==
  /\ pc = "exited" => result # "success"
  /\ MainStart
  /\ pc' = "main"

\* The resume prompt is answered Yes by a process that found a state file
\* when it started.
LiveRunStart ==
  /\ RunStart
  /\ exists(start_file) => resume' = "yes"

\* Runs that end by themselves: every step returns or raises.
NextLive ==
  \/ LiveMainStart
  \/ CollectConfiguration
  \/ SkipCollection
  \/ LiveRunStart
  \/ StepStart
  \/ RunCommand
  \/ StepSuccess
  \/ StepFailure
  \/ StepRaises
  \/ Complete

\* The process and its user go on (prompts are answered, steps return, a
\* failed run is followed by another), and a command or a step that is tried
\* again and again succeeds at some time.
Fairness ==
  /\ WF_vars(NextLive)
  /\ SF_vars(RunCommand)
  /\ SF_vars(StepSuccess)

SpecLive == Init /\ [][NextLive]_vars /\ Fairness

\* The installation has completed: run_installation returned True and the
\* state file is gone.
Completed ==
  /\ pc = "exited"
  /\ result = "success"
  /\ exit_status = 0
  /\ ~exists(file)

\* C34: a run executes at most 14 minus its start index steps and then
\* ends; when every failed run is followed by one that resumes, and steps
\* that are retried succeed at some time, a run at last returns success with
\* the state file removed, every one of the 14 steps having succeeded.
C34_TerminationAndCompletion ==
  /\ [](executed # << >> => Len(executed) <= NumSteps - executed[1].i)
  /\ []((pc = "loop" /\ pos = Len(self_steps)) =>
          succeeded = 0..(NumSteps - 1))
  /\ (pc \in {"main", "run", "loop", "exec"}) ~> (pc = "exited")
  /\ <>Completed

\* C34 witness: the run that completed had resumed after a failed run and
\* executed only the steps that were left.
C34_Witness ==
  /\ Completed
  /\ previous.result = "failure"
  /\ resume = "yes"
  /\ executed # << >>
  /\ executed[1].i > 0
  /\ Len(executed) = NumSteps - executed[1].i

====
